---- MODULE Spec2Model ----
(***************************************************************************)
(* Model of the caching / retry wrapper fetch_stock_data of test.py.       *)
(*                                                                         *)
(* The persistent store is the JSON file stock_cache.json.  Every process  *)
(* that runs the script imports the module (reading the API key from the   *)
(* environment) and then calls fetch_stock_data, which loads the whole     *)
(* file, consults it, asks the provider up to three times with a 60 s      *)
(* sleep between attempts and rewrites the whole file on success.          *)
(*                                                                         *)
(* Time is a datetime with whole seconds and microseconds.  The string     *)
(* "%Y-%m-%d %H:%M:%S" written to the file is identified with the count of *)
(* whole seconds it denotes, so strftime drops the microseconds.           *)
(*                                                                         *)
(* The wall clock advances between invocations (Tick) and during           *)
(* time.sleep(60) (Sleep); the latency of the HTTP request itself is left  *)
(* at zero.                                                                *)
(*                                                                         *)
(* The Streamlit page app.py is modelled beside it (UISpec): every         *)
(* interaction with the page reruns the script from the top against the    *)
(* session's st.session_state, which outlives the runs.                    *)
(***************************************************************************)
EXTENDS Integers, Sequences, FiniteSets, TLC

\* ------------------------------------------------------------------ bounds
MaxCalls == 3
MaxConcCalls == 4
MaxRuns == 4

\* --------------------------------------------------------------- constants
retries == 3
SLEEP_SECONDS == 60
EXPIRY_SECONDS == 3600

Procs == {1, 2}
SeqProcs == {1}
Symbols == {"AAPL", "IBM"}

\* ------------------------------------------------------------------- time
Time(s, u) == [sec |-> s, usec |-> u]

\* datetime - datetime, normalised as Python's timedelta (0 <= usec < 10^6)
TimeSub(a, b) ==
    IF a.usec >= b.usec
    THEN [sec |-> a.sec - b.sec, usec |-> a.usec - b.usec]
    ELSE [sec |-> a.sec - b.sec - 1, usec |-> a.usec + 1000000 - b.usec]

\* timedelta < timedelta
DeltaLess(d, e) == d.sec < e.sec \/ (d.sec = e.sec /\ d.usec < e.usec)

CACHE_EXPIRY == [sec |-> EXPIRY_SECONDS, usec |-> 0]

\* datetime.strftime("%Y-%m-%d %H:%M:%S"): second precision, microseconds dropped
strftime(t) == t.sec

\* datetime.strptime(s, "%Y-%m-%d %H:%M:%S")
strptime(s) == [sec |-> s, usec |-> 0]

\* the instants the clock may show when an invocation starts: half a second,
\* 59 minutes, half a second short of one hour, one hour, one hour and half
\* a second, 61 minutes after the first
Instants ==
    { Time(0, 500000), Time(3540, 0), Time(3599, 500000), Time(3600, 0),
      Time(3600, 500000), Time(3660, 0) }

Later(t, c) == t.sec > c.sec \/ (t.sec = c.sec /\ t.usec > c.usec)

\* ------------------------------------------------------ provider responses
TSKey == "Time Series (Daily)"
Fields == {"Note", "Error Message", "Information", TSKey}

RateLimitNote == "Our standard API call frequency is 5 calls per minute"
OtherNote == "Thank you for using Alpha Vantage"

FieldValues(f) ==
    CASE f = "Note" -> {RateLimitNote, OtherNote}
      [] f = TSKey -> {"series"}
      [] OTHER -> {"text"}

AllValues == UNION { FieldValues(f) : f \in Fields }

\* a parsed JSON object: a mapping from the fields present to their values
Responses ==
    UNION { { r \in [D -> AllValues] : \A f \in D : r[f] \in FieldValues(f) }
            : D \in SUBSET Fields }

\* "API call frequency" in data["Note"]
HasRateLimitPhrase(text) == text = RateLimitNote

EmptyDict == [f \in {} |-> "text"]

\* ------------------------------------------------------------------ state
VARIABLES
    clock,        \* datetime.now()
    cache_file,   \* stock_cache.json: [exists, content]
    API_KEY,      \* per process: module constant read at import
    pc,           \* per process: "idle", "attempt", "sleep", "done"
    symbol,       \* per process: argument of the current / last invocation
    cache,        \* per process: local mapping returned by load_cache()
    current_time, \* per process: local taken once before the retry loop
    attempt,      \* per process: loop variable of range(retries)
    data,         \* per process: local holding the last parsed response
    result,       \* per process: what the invocation returned or raised
    log,          \* per process: requests and sleeps of the invocation, in order
    reqTime,      \* per process: clock at its last network request
    answered,     \* per process: its last request got a parsed response
    stale,        \* per process: the file was rewritten since it was loaded
    prev,         \* symbol and outcome of the invocation that finished last
    calls         \* number of invocations started

\* the page app.py
VARIABLES
    session_state, \* st.session_state: a mapping, empty in a new session
    stock_symbol,  \* value of the sidebar text input in the current run
    uipc,          \* "idle" between runs, else the step the run is at
    shown,         \* what the current / last run rendered last
    raised,        \* the step of the current / last run that raised, or ""
    runs           \* number of script runs started

fetchvars == <<clock, cache_file, API_KEY, pc, symbol, cache, current_time,
               attempt, data, result, log, reqTime, answered, stale, prev, calls>>

uivars == <<session_state, stock_symbol, uipc, shown, raised, runs>>

vars == <<fetchvars, uivars>>

\* a new browser session before the first run of the script
UIStart ==
    /\ session_state = [k \in {} |-> FALSE]
    /\ stock_symbol = ""
    /\ uipc = "idle"
    /\ shown = "none"
    /\ raised = ""
    /\ runs = 0

NoResult == [kind |-> "none", value |-> EmptyDict, exc |-> "none"]
Returned(d) == [kind |-> "return", value |-> d, exc |-> "none"]
Raised(e) == [kind |-> "raise", value |-> EmptyDict, exc |-> e]

\* ------------------------------------------------------------ cache file
\* load_cache(): the parsed file, or {} when the file does not exist
load_cache ==
    IF cache_file.exists THEN cache_file.content ELSE EmptyDict

\* a save that merges the mapping into what the file holds
save_cacheMerging(c) ==
    [exists |-> TRUE,
     content |-> [s \in (DOMAIN cache_file.content) \cup (DOMAIN c) |->
                    IF s \in DOMAIN c THEN c[s] ELSE cache_file.content[s]]]

\* save_cache(cache): the whole mapping replaces the file
save_cache(c) == [exists |-> TRUE, content |-> c]

\* an assignment that starts from an empty mapping
DictSetAlone(c, k, e) == [s \in {k} |-> e]

\* cache[symbol] = entry
DictSet(c, k, e) ==
    [s \in (DOMAIN c) \cup {k} |-> IF s = k THEN e ELSE c[s]]

\* an entry that keeps only the time series of the response
NewEntrySeriesOnly(d, t) ==
    [data |-> [f \in {TSKey} |-> d[f]], timestamp |-> strftime(t)]

\* the entry written on success
NewEntry(d, t) == [data |-> d, timestamp |-> strftime(t)]

\* a freshness test that also accepts an entry exactly one hour old
IsFreshInclusive(c, s, now) ==
    /\ s \in DOMAIN c
    /\ ~ DeltaLess(CACHE_EXPIRY, TimeSub(now, strptime(c[s].timestamp)))

\* symbol in cache and current_time - cached_time < CACHE_EXPIRY
IsFresh(c, s, now) ==
    /\ s \in DOMAIN c
    /\ DeltaLess(TimeSub(now, strptime(c[s].timestamp)), CACHE_EXPIRY)

\* ------------------------------------------------- response classification
\* a classification that looks for the time-series key first
ClassifyKeyFirst(d) ==
    IF TSKey \in DOMAIN d THEN "valid"
    ELSE IF "Note" \in DOMAIN d /\ HasRateLimitPhrase(d["Note"]) THEN "rate_limit"
    ELSE IF "Error Message" \in DOMAIN d THEN "error"
    ELSE IF "Information" \in DOMAIN d THEN "information"
    ELSE "invalid"

\* a classification without the final check for the time-series key
ClassifyNoKeyCheck(d) ==
    IF "Note" \in DOMAIN d /\ HasRateLimitPhrase(d["Note"]) THEN "rate_limit"
    ELSE IF "Error Message" \in DOMAIN d THEN "error"
    ELSE IF "Information" \in DOMAIN d THEN "information"
    ELSE "valid"

\* the checks of one attempt, in the order the code makes them; the first
\* that applies raises
Classify(d) ==
    IF "Note" \in DOMAIN d /\ HasRateLimitPhrase(d["Note"]) THEN "rate_limit"
    ELSE IF "Error Message" \in DOMAIN d THEN "error"
    ELSE IF "Information" \in DOMAIN d THEN "information"
    ELSE IF TSKey \in DOMAIN d THEN "valid"
    ELSE "invalid"

\* ------------------------------------------------------------------- init
NoPrev == [symbol |-> "AAPL", result |-> NoResult, network |-> FALSE]

\* no cache file yet, no invocation yet; keys is what each process's
\* environment holds
Start(keys) ==
    /\ clock = Time(0, 0)
    /\ cache_file = [exists |-> FALSE, content |-> EmptyDict]
    /\ API_KEY = keys
    /\ pc = [p \in Procs |-> "idle"]
    /\ symbol = [p \in Procs |-> "AAPL"]
    /\ cache = [p \in Procs |-> EmptyDict]
    /\ current_time = [p \in Procs |-> Time(0, 0)]
    /\ attempt = [p \in Procs |-> 0]
    /\ data = [p \in Procs |-> EmptyDict]
    /\ result = [p \in Procs |-> NoResult]
    /\ log = [p \in Procs |-> << >>]
    /\ reqTime = [p \in Procs |-> Time(0, 0)]
    /\ answered = [p \in Procs |-> FALSE]
    /\ stale = [p \in Procs |-> FALSE]
    /\ prev = NoPrev
    /\ calls = 0
    /\ UIStart

Init == Start([p \in Procs |-> ""])

\* ---------------------------------------------------------------- actions
\* a process imports the module: load_dotenv(); API_KEY = os.getenv(...)
LoadEnv(p) ==
    /\ pc[p] = "idle"
    /\ \E k \in {"", "key"} : API_KEY' = [API_KEY EXCEPT ![p] = k]
    /\ UNCHANGED <<clock, cache_file, pc, symbol, cache, current_time, attempt,
                   data, result, log, reqTime, answered, stale, prev, calls>>
    /\ UNCHANGED uivars

\* a key check that never finds the key missing
KeyNeverMissing(p) == FALSE

\* not API_KEY
KeyMissing(p) == API_KEY[p] = ""

\* fetch_stock_data(s), lines 29-42: key check, load_cache, freshness check
Call(p, s) ==
    /\ pc[p] = "idle"
    /\ calls' = calls + 1
    /\ symbol' = [symbol EXCEPT ![p] = s]
    /\ IF KeyMissing(p)
       THEN /\ result' = [result EXCEPT ![p] = Raised("ValueError")]
            /\ pc' = [pc EXCEPT ![p] = "done"]
            /\ UNCHANGED <<cache, current_time>>
       ELSE /\ cache' = [cache EXCEPT ![p] = load_cache]
            /\ current_time' = [current_time EXCEPT ![p] = clock]
            /\ IF IsFresh(load_cache, s, clock)
               THEN /\ result' = [result EXCEPT ![p] = Returned(load_cache[s].data)]
                    /\ pc' = [pc EXCEPT ![p] = "done"]
               ELSE /\ result' = [result EXCEPT ![p] = NoResult]
                    /\ pc' = [pc EXCEPT ![p] = "attempt"]
    /\ UNCHANGED <<clock, cache_file, API_KEY, attempt, data, log, reqTime,
                   answered, stale, prev>>
    /\ UNCHANGED uivars

\* an except clause that also sleeps and retries after the last attempt
FailedAlwaysRetries(p) ==
    /\ pc' = [pc EXCEPT ![p] = "sleep"]
    /\ UNCHANGED result

\* what the except clause does with a failed attempt, lines 84-89
Failed(p) ==
    IF attempt[p] < retries - 1
    THEN /\ pc' = [pc EXCEPT ![p] = "sleep"]
         /\ UNCHANGED result
    ELSE /\ pc' = [pc EXCEPT ![p] = "done"]
         /\ result' = [result EXCEPT ![p] = Raised("Exception")]

\* one pass of the loop body, lines 54-82, answered by the response r;
\* transport says whether requests.get / response.json() raised instead
Attempt(p, r, transport) ==
    /\ pc[p] = "attempt"
    /\ reqTime' = [reqTime EXCEPT ![p] = clock]
    /\ answered' = [answered EXCEPT ![p] = ~ transport]
    /\ IF transport
       THEN /\ log' = [log EXCEPT ![p] = Append(@, "fail")]
            /\ Failed(p)
            /\ UNCHANGED <<data, cache, cache_file, stale>>
       ELSE /\ data' = [data EXCEPT ![p] = r]
            /\ IF Classify(r) = "valid"
               THEN /\ cache' = [cache EXCEPT ![p] =
                                   DictSet(@, symbol[p], NewEntry(r, current_time[p]))]
                    /\ cache_file' = save_cache(cache'[p])
                    /\ result' = [result EXCEPT ![p] = Returned(r)]
                    /\ pc' = [pc EXCEPT ![p] = "done"]
                    /\ log' = [log EXCEPT ![p] = Append(@, "ok")]
                    /\ stale' = [q \in Procs |->
                                   IF q # p /\ pc[q] \in {"attempt", "sleep"}
                                   THEN TRUE ELSE stale[q]]
               ELSE /\ log' = [log EXCEPT ![p] = Append(@, "fail")]
                    /\ Failed(p)
                    /\ UNCHANGED <<cache, cache_file, stale>>
    /\ UNCHANGED <<clock, API_KEY, symbol, current_time, attempt, prev, calls>>
    /\ UNCHANGED uivars

\* a retry that goes on to the next attempt without waiting
SleepNoBackoff(p) ==
    /\ pc[p] = "sleep"
    /\ attempt' = [attempt EXCEPT ![p] = @ + 1]
    /\ log' = [log EXCEPT ![p] = Append(@, "sleep")]
    /\ pc' = [pc EXCEPT ![p] = "attempt"]
    /\ UNCHANGED <<clock, cache_file, API_KEY, symbol, cache, current_time, data,
                   result, reqTime, answered, stale, prev, calls>>
    /\ UNCHANGED uivars

\* time.sleep(60) and the next iteration of the loop, line 87 and line 53
Sleep(p) ==
    /\ pc[p] = "sleep"
    /\ clock' = [clock EXCEPT !.sec = @ + SLEEP_SECONDS]
    /\ attempt' = [attempt EXCEPT ![p] = @ + 1]
    /\ log' = [log EXCEPT ![p] = Append(@, "sleep")]
    /\ pc' = [pc EXCEPT ![p] = "attempt"]
    /\ UNCHANGED <<cache_file, API_KEY, symbol, cache, current_time, data,
                   result, reqTime, answered, stale, prev, calls>>
    /\ UNCHANGED uivars

\* the invocation is over: its frame and locals are gone
Return(p) ==
    /\ pc[p] = "done"
    /\ pc' = [pc EXCEPT ![p] = "idle"]
    /\ prev' = [symbol |-> symbol[p], result |-> result[p],
                network |-> log[p] # << >>]
    /\ symbol' = [symbol EXCEPT ![p] = "AAPL"]
    /\ cache' = [cache EXCEPT ![p] = EmptyDict]
    /\ current_time' = [current_time EXCEPT ![p] = Time(0, 0)]
    /\ attempt' = [attempt EXCEPT ![p] = 0]
    /\ data' = [data EXCEPT ![p] = EmptyDict]
    /\ result' = [result EXCEPT ![p] = NoResult]
    /\ log' = [log EXCEPT ![p] = << >>]
    /\ reqTime' = [reqTime EXCEPT ![p] = Time(0, 0)]
    /\ answered' = [answered EXCEPT ![p] = FALSE]
    /\ stale' = [stale EXCEPT ![p] = FALSE]
    /\ UNCHANGED <<clock, cache_file, API_KEY, calls>>
    /\ UNCHANGED uivars

\* time passes while no invocation is running
Tick ==
    /\ \A p \in Procs : pc[p] = "idle"
    /\ \E t \in Instants : Later(t, clock) /\ clock' = t
    /\ UNCHANGED <<cache_file, API_KEY, pc, symbol, cache, current_time,
                   attempt, data, result, log, reqTime, answered, stale, prev,
                   calls>>
    /\ UNCHANGED uivars

Step(p, limit) ==
    \/ LoadEnv(p)
    \/ calls < limit /\ \E s \in Symbols : Call(p, s)
    \/ \E r \in Responses : Attempt(p, r, FALSE)
    \/ Attempt(p, EmptyDict, TRUE)
    \/ Sleep(p)
    \/ Return(p)

\* one process at a time: sequential execution
Next ==
    \/ \E p \in SeqProcs : Step(p, MaxCalls)
    \/ Tick

Spec == Init /\ [][Next]_vars

\* two processes, both with a key configured, share the file; the provider
\* answers with data or with the rate-limit note
ConcResponses ==
    { r \in Responses : r \in {[f \in {TSKey} |-> "series"],
                               [f \in {"Note"} |-> RateLimitNote]} }

ConcInit == Start([p \in Procs |-> "key"])

ConcStep(p) ==
    \/ calls < MaxConcCalls /\ \E s \in Symbols : Call(p, s)
    \/ \E r \in ConcResponses : Attempt(p, r, FALSE)
    \/ Sleep(p)
    \/ Return(p)

ConcNext == \E p \in Procs : ConcStep(p)

ConcSpec == ConcInit /\ [][ConcNext]_vars

\* --------------------------------------------------------------- app.py
\* what the user may type into the sidebar
Inputs == {"", "META", "AAPL"}

\* the five steps of the try block, lines 26-61, in order
UISteps == <<"fetch", "filter", "analyze", "graph", "pdf">>

StepAfter(st) ==
    LET i == CHOOSE k \in 1 .. Len(UISteps) : UISteps[k] = st
    IN IF i < Len(UISteps) THEN UISteps[i + 1] ELSE "idle"

\* the user edits the text input to s (or clicks the download button with s
\* unchanged) and the script reruns from the top: lines 15-23 and 69-72
Rerun(s) ==
    /\ uipc = "idle"
    /\ runs < MaxRuns
    /\ runs' = runs + 1
    /\ stock_symbol' = s
    /\ raised' = ""
    /\ LET ss == IF "completed" \notin DOMAIN session_state
                 THEN [k \in {"completed"} |-> FALSE]
                 ELSE session_state
       IN /\ session_state' = ss
          /\ IF s # "" /\ ~ ss["completed"]
             THEN uipc' = UISteps[1] /\ shown' = "subheader"
             ELSE IF ss["completed"]
                  THEN uipc' = "idle" /\ shown' = "success"
                  ELSE uipc' = "idle" /\ shown' = "prompt"
    /\ UNCHANGED fetchvars

\* the step the run is at returns; after the last one, line 64 sets the flag
StepReturns ==
    /\ uipc # "idle"
    /\ uipc' = StepAfter(uipc)
    /\ IF StepAfter(uipc) = "idle"
       THEN /\ session_state' = [session_state EXCEPT !["completed"] = TRUE]
            /\ shown' = "report"
       ELSE /\ UNCHANGED session_state
            /\ shown' = uipc
    /\ UNCHANGED <<stock_symbol, raised, runs>>
    /\ UNCHANGED fetchvars

\* the step the run is at raises (lines 30 and 44 included): the except
\* clause of lines 66-67 reports it and the run is over
StepRaises ==
    /\ uipc # "idle"
    /\ uipc' = "idle"
    /\ raised' = uipc
    /\ shown' = "error"
    /\ UNCHANGED <<session_state, stock_symbol, runs>>
    /\ UNCHANGED fetchvars

\* the user opens the page in a new browser session
NewSession ==
    /\ uipc = "idle"
    /\ shown # "none"
    /\ session_state' = [k \in {} |-> FALSE]
    /\ stock_symbol' = ""
    /\ shown' = "none"
    /\ raised' = ""
    /\ UNCHANGED <<uipc, runs>>
    /\ UNCHANGED fetchvars

UINext ==
    \/ \E s \in Inputs : Rerun(s)
    \/ StepReturns
    \/ StepRaises
    \/ NewSession

UISpec == Init /\ [][UINext]_vars

\* ------------------------------------------------------------ vocabulary
\* process p starts an invocation in this step
Starts(p) == pc[p] = "idle" /\ pc'[p] # "idle"

\* the invocation of p ended without any network request by returning a value
CacheHit(p) ==
    pc[p] = "done" /\ result[p].kind = "return" /\ log[p] = << >>

\* the invocation of p ended by returning the response of a network request
NetworkSuccess(p) ==
    pc[p] = "done" /\ result[p].kind = "return" /\ log[p] # << >>

\* the store holds an entry for s that is less than one hour old at time now:
\* the recorded timestamp is a whole second, so the age is below one hour
\* exactly when fewer than 3600 whole seconds separate the two
StoreFresh(s, now) ==
    /\ cache_file.exists
    /\ s \in DOMAIN cache_file.content
    /\ now.sec - cache_file.content[s].timestamp < EXPIRY_SECONDS

\* ----------------------------------------------------------------- claims
\* C1: with a key configured, an invocation for symbol s returns the cached
\* payload without any network request if and only if the store holds an
\* entry for s whose recorded timestamp is less than one hour before now; an
\* entry one hour old or older is not returned and the invocation goes on to
\* the network request.
C1_Freshness ==
    [][ \A p \in Procs :
          (Starts(p) /\ API_KEY[p] # "") =>
             LET s == symbol'[p] IN
             /\ StoreFresh(s, clock) =>
                   /\ pc'[p] = "done"
                   /\ result'[p] = Returned(cache_file.content[s].data)
                   /\ log'[p] = << >>
             /\ ~ StoreFresh(s, clock) =>
                   /\ pc'[p] = "attempt"
                   /\ result'[p].kind = "none"
                   /\ log'[p] = << >> ]_vars

\* C1 witness: an entry exactly one hour old was not returned
C1_Witness ==
    \E p \in Procs :
        /\ pc[p] = "attempt"
        /\ symbol[p] \in DOMAIN cache[p]
        /\ current_time[p] = Time(cache[p][symbol[p]].timestamp + EXPIRY_SECONDS, 0)

\* the requests and sleeps of an invocation whose first k attempts failed
FailLog(k) ==
    [i \in 1 .. 2 * k |-> IF i % 2 = 1 THEN "fail" ELSE "sleep"]

Range(f) == { f[i] : i \in DOMAIN f }

\* C2: on a cache miss whose attempts all fail, exactly 3 requests are made
\* and exactly 2 sleeps of 60 s, each sleep between two consecutive requests
\* and none after the third request, and the invocation ends by raising.
C2_RetryBudget ==
    \A p \in Procs :
        ("ok" \notin Range(log[p]) /\ log[p] # << >>) =>
            /\ pc[p] = "sleep" => log[p] \in {FailLog(1) \o <<"fail">>, <<"fail">>}
            /\ pc[p] = "attempt" => log[p] \in {FailLog(1), FailLog(2)}
            /\ pc[p] = "done" =>
                  /\ log[p] = FailLog(2) \o <<"fail">>
                  /\ result[p] = Raised("Exception")
                  /\ reqTime[p] = [current_time[p] EXCEPT !.sec = @ + 2 * SLEEP_SECONDS]
            /\ pc[p] # "idle"

\* C2 witness: an invocation ended after three failed requests
C2_Witness ==
    \E p \in Procs :
        pc[p] = "done" /\ log[p] = <<"fail", "sleep", "fail", "sleep", "fail">>

\* C3: if the first valid response arrives on attempt k (1 <= k <= 3), the
\* invocation makes exactly k requests and k-1 sleeps of 60 s, makes no
\* request after the successful one, and returns that response.
C3_RetryThenSuccess ==
    \A p \in Procs :
        "ok" \in Range(log[p]) =>
            LET k == attempt[p] + 1 IN
            /\ pc[p] = "done"
            /\ k \in 1 .. retries
            /\ log[p] = FailLog(k - 1) \o <<"ok">>
            /\ result[p] = Returned(data[p])
            /\ TSKey \in DOMAIN data[p]
            /\ reqTime[p] = [current_time[p] EXCEPT !.sec = @ + (k - 1) * SLEEP_SECONDS]

\* C3 witness: a valid response on the third attempt was returned after two
\* failed requests and two sleeps
C3_Witness ==
    \E p \in Procs :
        /\ NetworkSuccess(p)
        /\ log[p] = <<"fail", "sleep", "fail", "sleep", "ok">>
        /\ result[p].value = data[p]

\* the entry the store holds for the symbol of p's invocation
Stored(p) == cache_file.content[symbol[p]]

\* C4: after a success through a network request made at time T, the entry
\* persisted for the symbol carries the timestamp T (to the second).
C4_TimestampIsFetchTime ==
    \A p \in Procs :
        NetworkSuccess(p) => Stored(p).timestamp = strftime(reqTime[p])

\* C5: with no key configured an invocation fails at once, whatever the
\* store holds: no request, no sleep, the store is neither loaded nor written.
C5_ConfigurationError ==
    [][ \A p \in Procs :
          (Starts(p) /\ API_KEY[p] = "") =>
             /\ pc'[p] = "done"
             /\ result'[p] = Raised("ValueError")
             /\ log'[p] = << >>
             /\ cache'[p] = cache[p]
             /\ cache_file' = cache_file
             /\ clock' = clock ]_vars

\* C5 witness: the invocation failed although the store holds a fresh entry
\* for its symbol
C5_Witness ==
    \E p \in Procs :
        /\ pc[p] = "done"
        /\ result[p] = Raised("ValueError")
        /\ StoreFresh(symbol[p], clock)

C7_ValidPayload ==
    /\ \A p \in Procs :
          result[p].kind = "return" => TSKey \in DOMAIN result[p].value
    /\ \A s \in DOMAIN cache_file.content :
          TSKey \in DOMAIN cache_file.content[s].data
    /\ \A p \in Procs : \A s \in DOMAIN cache[p] :
          TSKey \in DOMAIN cache[p][s].data

\* C7 witness: a payload was returned from the cache
C7_Witness ==
    \E p \in Procs : CacheHit(p) /\ TSKey \in DOMAIN result[p].value

\* process p writes the store in this step
Saves(p) ==
    pc[p] = "attempt" /\ pc'[p] = "done" /\ result'[p].kind = "return"

\* p and q ran for different symbols, both missed the cache, q has already
\* succeeded and saved, p loaded the store before q saved and saves now
LostUpdateRace(p, q) ==
    /\ p # q
    /\ symbol[p] # symbol[q]
    /\ NetworkSuccess(q)
    /\ stale[p]
    /\ Saves(p)

\* the entry that q's successful invocation wrote for its symbol
WrittenBy(q) == NewEntry(result[q].value, current_time[q])

\* C8 as stated: after the race the store is the mapping of the last save
\* and does not contain the entry the other invocation wrote.
C8_LostUpdateAsStated ==
    [][ \A p, q \in Procs :
          LostUpdateRace(p, q) =>
             /\ cache_file'.exists
             /\ cache_file'.content = cache'[p]
             /\ \/ symbol[q] \notin DOMAIN cache_file'.content
                \/ cache_file'.content[symbol[q]] # WrittenBy(q) ]_vars

\* C8 amended: after the race the store is the mapping of the last save, in
\* which the other invocation's symbol has whatever the last writer had
\* loaded before that invocation saved (no entry, or the entry of then): the
\* other invocation's write has no effect on the store, although it returned
\* its payload to its caller.
C8_LostUpdate ==
    [][ \A p, q \in Procs :
          LostUpdateRace(p, q) =>
             /\ cache_file'.exists
             /\ cache_file'.content = cache'[p]
             /\ cache_file.content[symbol[q]] = WrittenBy(q)
             /\ result[q].kind = "return"
             /\ symbol[q] \in DOMAIN cache[p] =>
                   /\ symbol[q] \in DOMAIN cache_file'.content
                   /\ cache_file'.content[symbol[q]] = cache[p][symbol[q]]
             /\ symbol[q] \notin DOMAIN cache[p] =>
                   symbol[q] \notin DOMAIN cache_file'.content ]_vars

\* C8 witness: both invocations returned a payload and the store holds the
\* entry of one of them only
C8_Witness ==
    \E p, q \in Procs :
        /\ NetworkSuccess(p) /\ NetworkSuccess(q)
        /\ symbol[p] # symbol[q]
        /\ stale[p]
        /\ cache_file.content = cache[p]
        /\ symbol[q] \notin DOMAIN cache_file.content

\* the store as load_cache would return it after this step
load_cache_next ==
    IF cache_file'.exists THEN cache_file'.content ELSE EmptyDict

\* C9: in sequential execution the store is rewritten only by an invocation
\* that succeeds through a network request; a cache hit, a configuration
\* error and an invocation whose three attempts fail leave it as they found
\* it; a success for symbol S sets the entry of S and keeps every other
\* symbol's entry, data and timestamp.
C9_Frame ==
    [][ /\ cache_file' # cache_file => \E p \in Procs : Saves(p)
        /\ \A p \in Procs :
              /\ (pc[p] # "done" /\ pc'[p] = "done" /\ ~ Saves(p)) =>
                    /\ cache_file' = cache_file
                    /\ \/ result'[p] = Raised("ValueError")
                       \/ result'[p] = Raised("Exception") /\ Len(log'[p]) = 2 * retries - 1
                       \/ result'[p].kind = "return" /\ log'[p] = << >>
              /\ (pc[p] \in {"attempt", "sleep"}) => cache[p] = load_cache
              /\ Saves(p) =>
                    /\ cache_file'.exists
                    /\ DOMAIN load_cache_next = (DOMAIN load_cache) \cup {symbol[p]}
                    /\ load_cache_next[symbol[p]] =
                          [data |-> data'[p], timestamp |-> current_time[p].sec]
                    /\ \A s \in (DOMAIN load_cache) \ {symbol[p]} :
                          load_cache_next[s] = load_cache[s] ]_vars

\* C9 witness: a success replaced the entry of its symbol and the store
\* still holds the older entry of the other symbol
C9_Witness ==
    \E p \in Procs : \E s \in DOMAIN cache_file.content :
        /\ NetworkSuccess(p)
        /\ s # symbol[p]
        /\ cache_file.content[s].timestamp < Stored(p).timestamp

\* a response the code accepts: the time-series key and none of a rate-limit
\* note, an error message, an information field
Accepted(d) ==
    /\ TSKey \in DOMAIN d
    /\ ~ ("Note" \in DOMAIN d /\ HasRateLimitPhrase(d["Note"]))
    /\ "Error Message" \notin DOMAIN d
    /\ "Information" \notin DOMAIN d

\* the outcome of the last request in a log
LastOutcome(l) ==
    IF l[Len(l)] = "sleep" THEN l[Len(l) - 1] ELSE l[Len(l)]

\* C10 as stated: a response with the time-series key is a success whatever
\* other recognised fields come with it.
C10_ClassificationAsStated ==
    \A p \in Procs :
        (answered[p] /\ TSKey \in DOMAIN data[p]) =>
            /\ NetworkSuccess(p)
            /\ result[p] = Returned(data[p])
            /\ Stored(p).data = data[p]

\* C10 amended: a response is a success (entry written, store persisted,
\* payload returned, no further attempt) exactly when it has the time-series
\* key and no rate-limit note, no error message and no information field;
\* every other response is a retryable failure, also one that carries the
\* key next to one of these fields.
C10_Classification ==
    \A p \in Procs :
        answered[p] =>
            /\ Accepted(data[p]) =>
                  /\ NetworkSuccess(p)
                  /\ LastOutcome(log[p]) = "ok"
                  /\ result[p] = Returned(data[p])
                  /\ cache_file.exists
                  /\ Stored(p) = [data |-> data[p], timestamp |-> current_time[p].sec]
            /\ ~ Accepted(data[p]) =>
                  /\ LastOutcome(log[p]) = "fail"
                  /\ result[p].kind # "return"
                  /\ pc[p] \in {"sleep", "attempt"} \/ result[p] = Raised("Exception")

\* C10 witness: a response with the time-series key and an information field
\* was treated as a failure and the invocation went to sleep
C10_Witness ==
    \E p \in Procs :
        /\ pc[p] = "sleep"
        /\ answered[p]
        /\ TSKey \in DOMAIN data[p]
        /\ "Information" \in DOMAIN data[p]

\* the session's flag is set
Completed ==
    "completed" \in DOMAIN session_state /\ session_state["completed"]

\* the script starts a run in this step
RunStarts == runs' = runs + 1

\* the flag is set only by the step that ends the fifth step of a run in
\* which no step raised
FlagOnlyAfterAllSteps ==
    [][ (~ Completed /\ Completed') =>
           /\ uipc = UISteps[Len(UISteps)]
           /\ raised = "" /\ raised' = ""
           /\ shown' = "report" ]_vars

\* once the flag is set, no run of the session starts an analysis: the flag
\* stays set until the session ends and every run only shows the message
NoRestartInSession ==
    [][ (Completed /\ RunStarts) =>
           /\ Completed'
           /\ uipc' = "idle"
           /\ shown' = "success" ]_vars

\* C11: after an analysis has completed, a later run of the script in the
\* same session with a non-empty symbol starts a new analysis for that
\* symbol; and the flag is set only by a run in which no step raised.
C11_RestartAfterCompletion ==
    [][ /\ (Completed /\ RunStarts /\ stock_symbol' # "") =>
              /\ uipc' = UISteps[1]
              /\ shown' = "subheader"
        /\ (~ Completed /\ Completed') =>
              /\ uipc = UISteps[Len(UISteps)]
              /\ raised' = "" ]_vars

TypeOK ==
    /\ pc \in [Procs -> {"idle", "attempt", "sleep", "done"}]
    /\ attempt \in [Procs -> 0 .. retries - 1]
    /\ calls \in 0 .. MaxConcCalls
====
